---- MODULE Spec2Model ----
(***************************************************************************)
(* ralph-plans: the goal lifecycle engine.                                 *)
(*                                                                         *)
(* The store (db.go) is a SQLite database reached through one connection   *)
(* (SetMaxOpenConns(1)), so every statement, and every transaction as a    *)
(* whole, runs alone on it.  The HTTP handlers (handlers.go) run one per   *)
(* request, concurrently, and each is a sequence of store accesses: any    *)
(* other request's access may fall between two accesses of a handler.      *)
(***************************************************************************)
EXTENDS Integers, Sequences, FiniteSets, Bags, TLC

\* ---------------------------------------------------------------- bounds
MaxGoals == 2
NumCallers == 2
MaxTransitions == 3
MaxSeqTransitions == 5
MaxComments == 1
MaxMigrations == 2
MaxClock == 2
MaxClockTransitions == 5
MaxLiveTransitions == 4
MaxCommentRows == 3
MaxDepGoals == 3
MaxRetries == 2
MaxRetryTransitions == 7

Callers == 1..NumCallers

\* ------------------------------------------------------- HTTP status codes
HttpOK == 200
HttpCreated == 201
HttpBadRequest == 400
HttpNotFound == 404
HttpConflict == 409
HttpInternal == 500

\* handleListGoals: the page size when per_page is absent, and the largest one
DefaultPerPage == 20
MaxPerPage == 100

VARIABLES
    goals,        \* table goals: goals[id] is the row with that id
    transitions,  \* table goal_transitions, in insertion order
    comments,     \* table goal_comments, in insertion order
    goal_dependencies,  \* table goal_dependencies: a bag of rows <<goal_id, depends_on_id>>
    txn,          \* the open transaction on the connection, if any
    req,          \* req[c]: the request caller c is in, or its last one
    race,         \* the request all callers sent at once, and the status the
                  \* goal had then (RaceSpec only)
    listing,      \* the GET /goals request answered last and its response
                  \* (ListSpec only)
    schema,       \* what sqlite_master says of the tables: the CHECK constraint
                  \* of goals, its columns, the table the other tables reference
    migration,    \* where openDB and migrate are, and the goals table as
                  \* openDB found it (MigrateSpec only)
    clock,        \* the time of the system clock, in seconds (it advances in
                  \* ClockSpec only)
    lookup,       \* the call of canTransition, isTerminal or
                  \* hasUnmetDependencies made last, with its arguments and its
                  \* result (GraphSpec and ResolverSpec only)
    pages         \* the responses a client has got that lists the goals and
                  \* then walks the pages 1, 2, ... (PageSpec only)

vars == <<goals, transitions, comments, goal_dependencies, txn, req, race, listing,
          schema, migration, clock, lookup, pages>>

\* the pairs <<goal_id, depends_on_id>> that have a row in goal_dependencies
deps == BagToSet(goal_dependencies)

\* ------------------------------------------------------------ transitions.go
validTransitions ==
    [draft   |-> <<"queued", "cancelled">>,
     queued  |-> <<"running", "cancelled">>,
     running |-> <<"done", "stuck", "cancelled">>,
     stuck   |-> <<"queued", "cancelled">>]

\* the loop over the targets gives up after the first one
canTransitionFirstTarget(from, to) ==
    IF from \notin DOMAIN validTransitions
    THEN FALSE
    ELSE validTransitions[from][1] = to

canTransition(from, to) ==
    IF from \notin DOMAIN validTransitions
    THEN FALSE
    ELSE \E i \in 1..Len(validTransitions[from]) : validTransitions[from][i] = to

isTerminalDoneOnly(status) ==
    status = "done"

isTerminalOld(status) ==
    status = "submitted" \/ status = "merged" \/ status = "rejected" \/ status = "cancelled"

isTerminal(status) ==
    status = "done" \/ status = "cancelled"

\* the cases of TestCanTransition and of TestTerminalStatuses
TestCanTransition ==
    {[from |-> "draft",     to |-> "queued",    valid |-> TRUE],
     [from |-> "draft",     to |-> "cancelled", valid |-> TRUE],
     [from |-> "draft",     to |-> "running",   valid |-> FALSE],
     [from |-> "queued",    to |-> "running",   valid |-> TRUE],
     [from |-> "queued",    to |-> "cancelled", valid |-> TRUE],
     [from |-> "running",   to |-> "done",      valid |-> TRUE],
     [from |-> "running",   to |-> "stuck",     valid |-> TRUE],
     [from |-> "running",   to |-> "cancelled", valid |-> TRUE],
     [from |-> "running",   to |-> "queued",    valid |-> FALSE],
     [from |-> "stuck",     to |-> "queued",    valid |-> TRUE],
     [from |-> "stuck",     to |-> "cancelled", valid |-> TRUE],
     [from |-> "done",      to |-> "running",   valid |-> FALSE],
     [from |-> "done",      to |-> "cancelled", valid |-> FALSE],
     [from |-> "cancelled", to |-> "draft",     valid |-> FALSE]}

TestTerminalStatuses ==
    {[status |-> "draft",     terminal |-> FALSE],
     [status |-> "queued",    terminal |-> FALSE],
     [status |-> "running",   terminal |-> FALSE],
     [status |-> "done",      terminal |-> TRUE],
     [status |-> "stuck",     terminal |-> FALSE],
     [status |-> "cancelled", terminal |-> TRUE]}

\* ------------------------------------------------------------------- db.go
\* CHECK (status IN (...)) of table goals
CheckStatusOld(status) ==
    status \in {"draft", "queued", "running", "submitted", "merged", "rejected",
                "stuck", "cancelled"}

CheckStatus(status) ==
    status \in {"draft", "queued", "running", "done", "stuck", "cancelled"}

\* the row INSERT INTO goals (org, repo, title, body, model, reasoning) makes
createGoalQueued(org, repo, title, body, model, reasoning) ==
    [org |-> org, repo |-> repo, title |-> title, body |-> body,
     status |-> "queued", retries |-> 0, model |-> model, reasoning |-> reasoning,
     updated_at |-> clock]

createGoal(org, repo, title, body, model, reasoning) ==
    [org |-> org, repo |-> repo, title |-> title, body |-> body,
     status |-> "draft", retries |-> 0, model |-> model, reasoning |-> reasoning,
     updated_at |-> clock]

\* SELECT ... FROM goals WHERE id = ?: sql.ErrNoRows when there is no such row
getGoalFoundIgnoresError(g, id) == TRUE

getGoalFound(g, id) == id \in DOMAIN g

\* the *Goal that getGoal returns: nil together with an error
nilGoal == [status |-> "nil"]

getGoal(g, id) == IF id \in DOMAIN g THEN g[id] ELSE nilGoal

\* UPDATE goals SET status = ? WHERE id = ? AND status = ?: the rows it matches
updateMatchesAnyStatus(g, id, from) ==
    {i \in DOMAIN g : i = id}

updateMatches(g, id, from) ==
    {i \in DOMAIN g : i = id /\ g[i].status = from}

\* INSERT INTO goal_transitions (goal_id, from_status, to_status)
transitionRecordSwapped(id, from, to) ==
    [goal_id |-> id, from_status |-> to, to_status |-> from]

transitionRecord(id, from, to) ==
    [goal_id |-> id, from_status |-> from, to_status |-> to]

\* UPDATE goals SET status = ?, updated_at = ?: what the row becomes
setStatusCountingRetries(row, to, now) ==
    [row EXCEPT !.status = to, !.updated_at = now,
                !.retries = IF row.status = "stuck" THEN @ + 1 ELSE @]

setStatus(row, to, now) ==
    [row EXCEPT !.status = to, !.updated_at = now]

\* the goal_transitions table after the INSERT of record r: a new row with the
\* next AUTOINCREMENT id, the rows before it as they were
insertOverLastRow(rows, r) ==
    IF rows = <<>> THEN <<r>> ELSE [rows EXCEPT ![Len(rows)] = r]

insertRow(rows, r) ==
    Append(rows, r)

\* defer tx.Rollback(): what the tables hold once transaction t is rolled back
rollbackKeepsWrites(t) ==
    [goals |-> t.goals, transitions |-> t.transitions]

rollback(t) ==
    [goals |-> goals, transitions |-> transitions]

\* SELECT COUNT(*) FROM goal_dependencies gd JOIN goals g ON g.id = gd.depends_on_id
\*  WHERE gd.goal_id = ? AND g.status != 'done'
hasUnmetDependenciesActiveOnly(g, d, goalID) ==
    Cardinality({e \in d : e[1] = goalID /\ e[2] \in DOMAIN g
                           /\ g[e[2]].status \notin {"done", "cancelled"}}) > 0

hasUnmetDependencies(g, d, goalID) ==
    Cardinality({e \in d : e[1] = goalID /\ e[2] \in DOMAIN g
                           /\ g[e[2]].status # "done"}) > 0

\* listGoals: the WHERE clause; an empty filter value is no filter
listMatchesIgnoresOrg(g, i, status, org, repo) ==
    /\ status = "" \/ g[i].status = status
    /\ repo = "" \/ g[i].repo = repo

listMatches(g, i, status, org, repo) ==
    /\ status = "" \/ g[i].status = status
    /\ org = "" \/ g[i].org = org
    /\ repo = "" \/ g[i].repo = repo

\* ORDER BY id DESC: the ids of table g, largest first
orderByIdAsc(g) ==
    [j \in 1..Len(g) |-> j]

orderByIdDesc(g) ==
    [j \in 1..Len(g) |-> Len(g) + 1 - j]

\* the columns of GoalSummary
goalSummary(g, i) ==
    [id |-> i, org |-> g[i].org, repo |-> g[i].repo, title |-> g[i].title,
     status |-> g[i].status, model |-> g[i].model, reasoning |-> g[i].reasoning]

\* listGoals: the total is counted only when limit > 0, and LIMIT ? OFFSET ?
\* is applied only then
listGoalsWithoutOffset(g, status, org, repo, limit, offset) ==
    LET all == SelectSeq(orderByIdDesc(g),
                         LAMBDA i : listMatches(g, i, status, org, repo))
        last == IF limit < Len(all) THEN limit ELSE Len(all)
        page == IF limit > 0 THEN SubSeq(all, 1, last) ELSE all
    IN  [items |-> [j \in 1..Len(page) |-> goalSummary(g, page[j])],
         total |-> IF limit > 0 THEN Len(all) ELSE 0]

listGoals(g, status, org, repo, limit, offset) ==
    LET all == SelectSeq(orderByIdDesc(g),
                         LAMBDA i : listMatches(g, i, status, org, repo))
        first == offset + 1
        last == IF offset + limit < Len(all) THEN offset + limit ELSE Len(all)
        page == IF limit > 0 THEN SubSeq(all, first, last) ELSE all
    IN  [items |-> [j \in 1..Len(page) |-> goalSummary(g, page[j])],
         total |-> IF limit > 0 THEN Len(all) ELSE 0]

\* PRIMARY KEY (goal_id, depends_on_id): an INSERT of a pair that already has
\* a row fails
primaryKeyTakenNever(rows, row) == FALSE

primaryKeyTaken(rows, row) == BagIn(row, rows)

\* DELETE FROM goal_dependencies WHERE goal_id = ? AND depends_on_id = ?
deleteEveryRow(rows, row) == EmptyBag

deleteWhere(rows, row) == [e \in DOMAIN rows \ {row} |-> rows[e]]

\* res.RowsAffected() of that DELETE
rowsAffected(rows, row) == CopiesIn(row, rows)

\* the statuses that CHECK (status IN (...)) of table goals lets through, for
\* the constraint of PLAN.md ("plan"), the one that still has submitted,
\* merged and rejected ("old") and the one migrate creates ("current"); "none"
\* is a database file without tables
statusCheck(version) ==
    IF version = "plan"
    THEN {"draft", "queued", "running", "reviewing", "done", "stuck", "cancelled"}
    ELSE IF version = "old"
    THEN {"draft", "queued", "running", "submitted", "merged", "rejected",
          "stuck", "cancelled"}
    ELSE IF version = "current"
    THEN {"draft", "queued", "running", "done", "stuck", "cancelled"}
    ELSE {}

\* migrate: CASE WHEN status IN ('submitted','merged') THEN 'done'
\*          WHEN status = 'rejected' THEN 'cancelled' ELSE status END
remapStatus(status) ==
    IF status \in {"submitted", "merged"} THEN "done"
    ELSE IF status = "rejected" THEN "cancelled"
    ELSE status

\* ALTER TABLE goals RENAME TO goals_old: the table that REFERENCES clauses of
\* the other tables name afterwards.  SQLite rewrites them to the new name
\* unless PRAGMA legacy_alter_table is ON.
alterTableRename(references, legacy) ==
    IF ~legacy /\ references = "goals" THEN "goals_old" ELSE references

\* the row of migrate's test INSERT
probeRow ==
    [org |-> "__test", repo |-> "__test", title |-> "__test", body |-> "__test",
     status |-> "done", retries |-> 0, model |-> "null", reasoning |-> "null",
     updated_at |-> clock]

\* --------------------------------------------------------------- handlers.go
\* the from -> to pair each transitionHandler route is built with
handleQueue == [from |-> "draft", to |-> "queued"]

handleDone == [from |-> "running", to |-> "done"]

handleSubmitted == [from |-> "running", to |-> "submitted"]

handleStuckToQueued == [from |-> "running", to |-> "queued"]

handleStuck == [from |-> "running", to |-> "stuck"]

handleRequeue == [from |-> "stuck", to |-> "queued"]

routes ==
    [queue |-> handleQueue, done |-> handleDone, submitted |-> handleSubmitted,
     stuck |-> handleStuck, requeue |-> handleRequeue]

dependencyAllowedStatuses == {"draft", "queued", "stuck"}

\* the response of a handler after updateGoalStatus returned
updateResponseIgnoresError(err) == HttpOK

updateResponse(err) ==
    IF err # "nil" THEN HttpInternal ELSE HttpOK

\* ------------------------------------------------------------ request state
NoTx == [owner |-> 0, goals |-> <<>>, transitions |-> <<>>]

\* pc "idle": no request in progress; resp is the status code of the last one.
\* pc "received": the route and the goal id are known, no store access made yet.
Idle ==
    [pc |-> "idle", op |-> "none", id |-> 0, dep |-> 0,
     from |-> "none", to |-> "none", resp |-> 0, now |-> 0]

connFree == txn.owner = 0

\* db.Exec / db.Query inside a transaction: the statement asks the pool for the
\* connection that the transaction holds
txOnPool(c) == connFree

\* tx.Exec / tx.Commit: the statement runs on the connection that db.Begin
\* took for caller c's transaction
txConn(c) == txn.owner = c

\* caller c starts the handler of route op on goal id
begins(c, op, id) ==
    \/ req[c].pc = "idle"
    \/ req[c].pc = "received" /\ req[c].op = op /\ req[c].id = id

\* writeJSON / writeErr: caller c gets its response, with that status code, and
\* the request is over
respond(c, code) ==
    req' = [req EXCEPT ![c] = [Idle EXCEPT !.resp = code]]

goto(c, op, id, dep, from, to, pc) ==
    req' = [req EXCEPT ![c] =
              [pc |-> pc, op |-> op, id |-> id, dep |-> dep,
               from |-> from, to |-> to, resp |-> 0, now |-> 0]]

transitionPcs == {"received", "deps", "update", "insert", "commit"}

\* the tables are kept within the bounds of the model: n transition records
\* (written or about to be), MaxComments comments, MaxGoals goals
withinBounds(n) ==
    /\ Len(goals) <= MaxGoals
    /\ Len(transitions)
         + Cardinality({c \in Callers : /\ req[c].pc \in transitionPcs
                                        /\ req[c].op \notin {"add_dep", "rm_dep"}}) <= n
    /\ Len(comments) + Cardinality({c \in Callers : req[c].pc = "comment"}) <= MaxComments

requestIds == 1..(Len(goals) + 1)

dependsOnIds == 0..(Len(goals) + 1)

\* request bodies of POST /goals: a complete one, and one for each way of
\* being rejected
createBodies ==
    LET ok == [org |-> "o", repo |-> "r", title |-> "t", body |-> "b",
               model |-> "null", reasoning |-> "null"]
    IN  {ok, [ok EXCEPT !.org = ""], [ok EXCEPT !.repo = ""], [ok EXCEPT !.title = ""],
         [ok EXCEPT !.body = ""], [ok EXCEPT !.model = "gpt"],
         [ok EXCEPT !.reasoning = "max"]}

NoRace == [op |-> "none", status |-> "none"]

NoListing == [code |-> 0]

NoLookup == [fn |-> "none"]

\* the schema migrate leaves: the current CHECK constraint on goals.status,
\* the columns model and reasoning, and goal_transitions and goal_comments
\* with REFERENCES goals(id)
CurrentSchema == [check |-> "current", hints |-> TRUE, references |-> "goals"]

\* openDB has returned: no migrate in progress
NoMigration == [pc |-> "open", testErr |-> "nil", err |-> "nil", runs |-> 0,
                found |-> <<>>, foundSchema |-> CurrentSchema]

Init ==
    /\ clock = 0
    /\ lookup = NoLookup
    /\ pages = <<>>
    /\ goals = <<>>
    /\ transitions = <<>>
    /\ comments = <<>>
    /\ goal_dependencies = EmptyBag
    /\ txn = NoTx
    /\ req = [c \in Callers |-> Idle]
    /\ race = NoRace
    /\ listing = NoListing
    /\ schema = CurrentSchema
    /\ migration = NoMigration

\* ------------------------------------------------------------------ actions
\* handleCreateGoal: the test of the required fields
missingFieldsIgnoresBody(b) ==
    b.org = "" \/ b.repo = "" \/ b.title = ""

missingFields(b) ==
    b.org = "" \/ b.repo = "" \/ b.title = "" \/ b.body = ""

\* POST /goals
handleCreateGoal(c) ==
    /\ req[c].pc = "idle"
    /\ \E b \in createBodies :
        IF missingFields(b)
        THEN /\ respond(c, HttpBadRequest)
             /\ UNCHANGED <<goals, transitions, comments, goal_dependencies, txn>>
        ELSE IF b.model # "null" /\ b.model \notin {"haiku", "sonnet", "opus"}
        THEN /\ respond(c, HttpBadRequest)
             /\ UNCHANGED <<goals, transitions, comments, goal_dependencies, txn>>
        ELSE IF b.reasoning # "null" /\ b.reasoning \notin {"none", "low", "med", "high"}
        THEN /\ respond(c, HttpBadRequest)
             /\ UNCHANGED <<goals, transitions, comments, goal_dependencies, txn>>
        ELSE /\ connFree
             /\ goals' = Append(goals,
                    createGoal(b.org, b.repo, b.title, b.body, b.model, b.reasoning))
             /\ respond(c, HttpCreated)
             /\ UNCHANGED <<transitions, comments, goal_dependencies, txn>>

\* PATCH /goals/{id}/queue, done, submitted, stuck, requeue: getGoal and the
\* status test of transitionHandler
transitionHandler(c, op, id) ==
    /\ begins(c, op, id)
    /\ connFree
    /\ IF ~getGoalFound(goals, id)
       THEN respond(c, HttpNotFound)
       ELSE IF getGoal(goals, id).status # routes[op].from
       THEN respond(c, HttpConflict)
       ELSE goto(c, op, id, 0, routes[op].from, routes[op].to, "update")
    /\ UNCHANGED <<goals, transitions, comments, goal_dependencies, txn>>

\* PATCH /goals/{id}/start: getGoal and the status test
handleStart(c, id) ==
    /\ begins(c, "start", id)
    /\ connFree
    /\ IF ~getGoalFound(goals, id)
       THEN respond(c, HttpNotFound)
       ELSE IF getGoal(goals, id).status # "queued"
       THEN respond(c, HttpConflict)
       ELSE goto(c, "start", id, 0, "queued", "running", "deps")
    /\ UNCHANGED <<goals, transitions, comments, goal_dependencies, txn>>

\* handleStart: the hasUnmetDependencies query
handleStartDeps(c) ==
    /\ req[c].pc = "deps"
    /\ connFree
    /\ IF hasUnmetDependencies(goals, deps, req[c].id)
       THEN respond(c, HttpConflict)
       ELSE req' = [req EXCEPT ![c].pc = "update"]
    /\ UNCHANGED <<goals, transitions, comments, goal_dependencies, txn>>

\* PATCH /goals/{id}/cancel: getGoal and the isTerminal test
handleCancel(c, id) ==
    /\ begins(c, "cancel", id)
    /\ connFree
    /\ IF ~getGoalFound(goals, id)
       THEN respond(c, HttpNotFound)
       ELSE IF isTerminal(getGoal(goals, id).status)
       THEN respond(c, HttpConflict)
       ELSE goto(c, "cancel", id, 0, getGoal(goals, id).status, "cancelled", "update")
    /\ UNCHANGED <<goals, transitions, comments, goal_dependencies, txn>>

\* updateGoalStatus: db.Begin and the UPDATE.  No row matched is sql.ErrNoRows;
\* a matched row whose new status fails the CHECK constraint is an error too;
\* either way the deferred Rollback ends the transaction and the handler
\* answers with updateResponse of the error.
updateGoalStatus(c) ==
    /\ req[c].pc = "update"
    /\ connFree
    /\ LET r == req[c]
           rows == updateMatches(goals, r.id, r.from)
       IN  IF rows = {}
           THEN /\ respond(c, updateResponse("ErrNoRows"))
                /\ txn' = txn
           ELSE IF ~CheckStatus(r.to)
           THEN /\ respond(c, updateResponse("CHECK constraint failed"))
                /\ txn' = txn
           ELSE /\ txn' = [owner |-> c,
                           goals |-> [i \in DOMAIN goals |->
                                        IF i \in rows
                                        THEN setStatus(goals[i], r.to, r.now)
                                        ELSE goals[i]],
                           transitions |-> transitions]
                /\ req' = [req EXCEPT ![c].pc = "insert"]
    /\ UNCHANGED <<goals, transitions, comments, goal_dependencies>>

\* updateGoalStatus: the INSERT INTO goal_transitions, inside the transaction
updateGoalStatusInsert(c) ==
    /\ req[c].pc = "insert"
    /\ txConn(c)
    /\ txn' = [txn EXCEPT !.transitions =
                 insertRow(@, transitionRecord(req[c].id, req[c].from, req[c].to))]
    /\ req' = [req EXCEPT ![c].pc = "commit"]
    /\ UNCHANGED <<goals, transitions, comments, goal_dependencies>>

\* updateGoalStatus: tx.Commit, and the handler's {"ok": true}
updateGoalStatusCommit(c) ==
    /\ req[c].pc = "commit"
    /\ txConn(c)
    /\ goals' = txn.goals
    /\ transitions' = txn.transitions
    /\ txn' = NoTx
    /\ respond(c, updateResponse("nil"))
    /\ UNCHANGED <<comments, goal_dependencies>>

\* updateGoalStatus: the INSERT fails (a storage error); the deferred Rollback runs
updateGoalStatusInsertFails(c) ==
    /\ req[c].pc = "insert"
    /\ txConn(c)
    /\ goals' = rollback(txn).goals
    /\ transitions' = rollback(txn).transitions
    /\ txn' = NoTx
    /\ respond(c, updateResponse("storage error"))
    /\ UNCHANGED <<comments, goal_dependencies>>

\* POST /goals/{id}/dependencies: getGoal, the status test and the body tests
handleAddDependency(c, id, dependsOnID) ==
    /\ begins(c, "add_dep", id)
    /\ connFree
    /\ IF ~getGoalFound(goals, id)
       THEN respond(c, HttpNotFound)
       ELSE IF getGoal(goals, id).status \notin dependencyAllowedStatuses
       THEN respond(c, HttpConflict)
       ELSE IF dependsOnID = 0
       THEN respond(c, HttpBadRequest)
       ELSE IF dependsOnID = id
       THEN respond(c, HttpBadRequest)
       ELSE goto(c, "add_dep", id, dependsOnID, "none", "none", "dep_get")
    /\ UNCHANGED <<goals, transitions, comments, goal_dependencies, txn>>

\* handleAddDependency: getGoal of the prerequisite
handleAddDependencyGetDep(c) ==
    /\ req[c].pc = "dep_get"
    /\ connFree
    /\ IF ~getGoalFound(goals, req[c].dep)
       THEN respond(c, HttpNotFound)
       ELSE req' = [req EXCEPT ![c].pc = "dep_add"]
    /\ UNCHANGED <<goals, transitions, comments, goal_dependencies, txn>>

\* handleAddDependency: addDependency.  The primary key (goal_id, depends_on_id)
\* refuses a pair that is already there.
addDependency(c) ==
    /\ req[c].pc = "dep_add"
    /\ connFree
    /\ IF primaryKeyTaken(goal_dependencies, <<req[c].id, req[c].dep>>)
       THEN /\ respond(c, HttpInternal)
            /\ goal_dependencies' = goal_dependencies
       ELSE /\ goal_dependencies' = goal_dependencies (+) SetToBag({<<req[c].id, req[c].dep>>})
            /\ respond(c, HttpCreated)
    /\ UNCHANGED <<goals, transitions, comments, txn>>

\* DELETE /goals/{id}/dependencies/{dep_id}: getGoal and the status test
handleRemoveDependency(c, id, depID) ==
    /\ begins(c, "rm_dep", id)
    /\ connFree
    /\ IF ~getGoalFound(goals, id)
       THEN respond(c, HttpNotFound)
       ELSE IF getGoal(goals, id).status \notin dependencyAllowedStatuses
       THEN respond(c, HttpConflict)
       ELSE goto(c, "rm_dep", id, depID, "none", "none", "dep_rm")
    /\ UNCHANGED <<goals, transitions, comments, goal_dependencies, txn>>

\* handleRemoveDependency: removeDependency; no row deleted is sql.ErrNoRows
removeDependency(c) ==
    /\ req[c].pc = "dep_rm"
    /\ connFree
    /\ IF rowsAffected(goal_dependencies, <<req[c].id, req[c].dep>>) = 0
       THEN /\ respond(c, HttpNotFound)
            /\ goal_dependencies' = goal_dependencies
       ELSE /\ goal_dependencies' = deleteWhere(goal_dependencies, <<req[c].id, req[c].dep>>)
            /\ respond(c, HttpOK)
    /\ UNCHANGED <<goals, transitions, comments, txn>>

\* POST /goals/{id}/comments: getGoal and the body test
handleCreateComment(c, id, body) ==
    /\ begins(c, "comment", id)
    /\ connFree
    /\ IF ~getGoalFound(goals, id)
       THEN respond(c, HttpNotFound)
       ELSE IF body = ""
       THEN respond(c, HttpBadRequest)
       ELSE goto(c, "comment", id, 0, "none", "none", "comment")
    /\ UNCHANGED <<goals, transitions, comments, goal_dependencies, txn>>

\* handleCreateComment: createComment
createComment(c) ==
    /\ req[c].pc = "comment"
    /\ connFree
    /\ comments' = Append(comments, [id |-> Len(comments) + 1,
                                      goal_id |-> req[c].id, body |-> "b"])
    /\ respond(c, HttpCreated)
    /\ UNCHANGED <<goals, transitions, goal_dependencies, txn>>

\* SELECT id, goal_id, body, created_at FROM goal_comments WHERE goal_id = ?
\*  ORDER BY id
listComments(rows, goalID) ==
    SelectSeq(rows, LAMBDA r : r.goal_id = goalID)

\* GET /goals/{id}/comments: listComments, and the response with its items
handleListComments(c, id) ==
    /\ begins(c, "list_comments", id)
    /\ connFree
    /\ listing' = [code |-> HttpOK, items |-> listComments(comments, id)]
    /\ respond(c, HttpOK)
    /\ UNCHANGED <<goals, transitions, comments, goal_dependencies, txn>>

\* a query parameter holding a number, one holding no number, and an absent one
numeral(n) == [present |-> TRUE, numeric |-> TRUE, n |-> n]

notANumber == [present |-> TRUE, numeric |-> FALSE, n |-> 0]

absent == [present |-> FALSE, numeric |-> FALSE, n |-> 0]

\* strconv.Atoi
AtoiIgnoresSyntax(param) ==
    [err |-> FALSE, n |-> IF param.numeric THEN param.n ELSE 1]

Atoi(param) ==
    IF param.numeric THEN [err |-> FALSE, n |-> param.n] ELSE [err |-> TRUE, n |-> 0]

\* the response body of GET /goals for query q; the query parameter ready is
\* not read
listResponse(g, q) ==
    LET paginated == q.page.present
        page == Atoi(q.page)
        perPageGiven == Atoi(q.per_page)
        perPage == IF ~q.per_page.present THEN DefaultPerPage
                   ELSE IF perPageGiven.n > MaxPerPage THEN MaxPerPage
                   ELSE perPageGiven.n
        limit == IF paginated THEN perPage ELSE 0
        offset == IF paginated THEN (page.n - 1) * perPage ELSE 0
        res == listGoals(g, q.status, q.org, q.repo, limit, offset)
    IN  IF paginated /\ (page.err \/ page.n <= 0)
        THEN [code |-> HttpBadRequest, query |-> q]
        ELSE IF paginated /\ q.per_page.present
                /\ (perPageGiven.err \/ perPageGiven.n <= 0)
        THEN [code |-> HttpBadRequest, query |-> q]
        ELSE IF paginated
        THEN [code |-> HttpOK, query |-> q, items |-> res.items,
              paginated |-> TRUE, page |-> page.n, per_page |-> perPage,
              total |-> res.total]
        ELSE [code |-> HttpOK, query |-> q, items |-> res.items, paginated |-> FALSE]

\* GET /goals
handleListGoals(q) ==
    /\ connFree
    /\ listing' = listResponse(goals, q)
    /\ UNCHANGED <<goals, transitions, comments, goal_dependencies, txn, req, race,
                 schema, migration, clock, lookup>>

\* the owner of the transaction that migrate opens
Migrator == NumCallers + 1

\* main: openDB is called, and calls migrate
openDB ==
    /\ migration.pc = "open"
    /\ migration.runs < MaxMigrations
    /\ migration' = [pc |-> "create", testErr |-> "nil", err |-> "nil",
                     runs |-> migration.runs + 1,
                     found |-> goals, foundSchema |-> schema]
    /\ UNCHANGED <<goals, transitions, comments, goal_dependencies, txn, schema>>

\* migrate: CREATE TABLE IF NOT EXISTS, CREATE INDEX IF NOT EXISTS
migrateCreateTables ==
    /\ migration.pc = "create"
    /\ connFree
    /\ schema' = IF schema.check = "none" THEN CurrentSchema ELSE schema
    /\ migration' = [migration EXCEPT !.pc = "alter"]
    /\ UNCHANGED <<goals, transitions, comments, goal_dependencies, txn>>

\* migrate: ALTER TABLE goals ADD COLUMN model, reasoning; "duplicate column
\* name" is ignored
migrateAddColumns ==
    /\ migration.pc = "alter"
    /\ connFree
    /\ schema' = [schema EXCEPT !.hints = TRUE]
    /\ migration' = [migration EXCEPT !.pc = "probe"]
    /\ UNCHANGED <<goals, transitions, comments, goal_dependencies, txn>>

\* migrate: db.Begin and the test INSERT of a goal with status 'done'
migrateProbe ==
    /\ migration.pc = "probe"
    /\ connFree
    /\ IF probeRow.status \in statusCheck(schema.check)
       THEN /\ txn' = [owner |-> Migrator, goals |-> Append(goals, probeRow),
                       transitions |-> transitions]
            /\ migration' = [migration EXCEPT !.pc = "rollback"]
       ELSE /\ txn' = [owner |-> Migrator, goals |-> goals, transitions |-> transitions]
            /\ migration' = [migration EXCEPT !.pc = "rollback",
                                              !.testErr = "CHECK constraint failed"]
    /\ UNCHANGED <<goals, transitions, comments, goal_dependencies, schema>>

\* migrate: tx.Rollback()
migrateProbeRollback ==
    /\ migration.pc = "rollback"
    /\ txn.owner = Migrator
    /\ goals' = rollback(txn).goals
    /\ transitions' = rollback(txn).transitions
    /\ txn' = NoTx
    /\ migration' = [migration EXCEPT !.pc = "recreate"]
    /\ UNCHANGED <<comments, goal_dependencies, schema>>

\* migrate: when the test INSERT failed the CHECK constraint, recreateStmts:
\* goals is renamed to goals_old with legacy_alter_table ON, created anew,
\* filled from goals_old with the statuses remapped, and goals_old is dropped.
\* A remapped row that fails the new CHECK constraint fails the INSERT ...
\* SELECT as a whole, and migrate returns the error.
migrateRecreate ==
    /\ migration.pc = "recreate"
    /\ connFree
    /\ IF migration.testErr = "CHECK constraint failed"
       THEN LET remapped == [i \in DOMAIN goals |->
                               [goals[i] EXCEPT !.status = remapStatus(@)]]
                renamed == [check |-> "current", hints |-> TRUE,
                            references |-> alterTableRename(schema.references, TRUE)]
            IN  IF \A i \in DOMAIN remapped : CheckStatus(remapped[i].status)
                THEN /\ goals' = remapped
                     /\ schema' = renamed
                     /\ migration' = [migration EXCEPT !.pc = "fixfk"]
                ELSE /\ goals' = <<>>
                     /\ schema' = renamed
                     /\ migration' = [migration EXCEPT !.pc = "open",
                                                       !.err = "CHECK constraint failed"]
       ELSE /\ migration' = [migration EXCEPT !.pc = "fixfk"]
            /\ UNCHANGED <<goals, schema>>
    /\ UNCHANGED <<transitions, comments, goal_dependencies, txn>>

\* migrate: when the CREATE TABLE of goal_transitions names goals_old,
\* fixFKStmts: goal_transitions and goal_comments are created anew with
\* REFERENCES goals(id) and filled with the rows they had
migrateFixForeignKeys ==
    /\ migration.pc = "fixfk"
    /\ connFree
    /\ schema' = IF schema.references = "goals_old"
                 THEN [schema EXCEPT !.references = "goals"]
                 ELSE schema
    /\ migration' = [migration EXCEPT !.pc = "open"]
    /\ UNCHANGED <<goals, transitions, comments, goal_dependencies, txn>>

\* updateGoalStatus: now := time.Now().UTC().Format(time.RFC3339), its first
\* statement, before db.Begin
timeNow(c) ==
    /\ req[c].pc = "update"
    /\ req[c].now = 0
    /\ req' = [req EXCEPT ![c].now = clock]
    /\ UNCHANGED <<goals, transitions, comments, goal_dependencies, txn>>

\* ----------------------------------------------------------- specifications
\* one step of the request of caller c
Step(c) ==
    \/ handleCreateGoal(c)
    \/ \E op \in DOMAIN routes, id \in requestIds : transitionHandler(c, op, id)
    \/ \E id \in requestIds : handleStart(c, id)
    \/ handleStartDeps(c)
    \/ \E id \in requestIds : handleCancel(c, id)
    \/ updateGoalStatus(c)
    \/ updateGoalStatusInsert(c)
    \/ updateGoalStatusCommit(c)
    \/ \E id \in requestIds, d \in dependsOnIds : handleAddDependency(c, id, d)
    \/ handleAddDependencyGetDep(c)
    \/ addDependency(c)
    \/ \E id \in requestIds, d \in dependsOnIds : handleRemoveDependency(c, id, d)
    \/ removeDependency(c)
    \/ \E id \in requestIds, b \in {"", "b"} : handleCreateComment(c, id, b)
    \/ createComment(c)

\* concurrent requests: any caller takes the next step
Next ==
    \E c \in Callers :
        /\ Step(c)
        /\ withinBounds(MaxTransitions)'
        /\ UNCHANGED <<race, listing, schema, migration, clock, lookup, pages>>

Spec == Init /\ [][Next]_vars

\* concurrent requests, and a transition record INSERT that may fail
FaultStep(c) ==
    \/ Step(c)
    \/ updateGoalStatusInsertFails(c)

FaultNext ==
    \E c \in Callers :
        /\ FaultStep(c)
        /\ withinBounds(MaxTransitions)'
        /\ UNCHANGED <<race, listing, schema, migration, clock, lookup, pages>>

FaultSpec == Init /\ [][FaultNext]_vars

\* the same request from every caller at once, on goal 1.  The goal has status
\* s and the transition records of the requests that brought it there.
statusPath ==
    [draft     |-> <<"draft">>,
     queued    |-> <<"draft", "queued">>,
     running   |-> <<"draft", "queued", "running">>,
     stuck     |-> <<"draft", "queued", "running", "stuck">>,
     done      |-> <<"draft", "queued", "running", "done">>,
     cancelled |-> <<"draft", "queued", "cancelled">>]

historyOf(s) ==
    [i \in 1..(Len(statusPath[s]) - 1) |->
        transitionRecord(1, statusPath[s][i], statusPath[s][i + 1])]

raceOps == DOMAIN routes \cup {"start", "cancel"}

RaceInit ==
    \E op \in raceOps, s \in DOMAIN statusPath :
        /\ clock = 0
        /\ lookup = NoLookup
        /\ pages = <<>>
        /\ goals = <<[createGoal("o", "r", "t", "b", "null", "null") EXCEPT !.status = s]>>
        /\ transitions = historyOf(s)
        /\ comments = <<>>
        /\ goal_dependencies = EmptyBag
        /\ txn = NoTx
        /\ req = [c \in Callers |-> [Idle EXCEPT !.pc = "received", !.op = op, !.id = 1]]
        /\ race = [op |-> op, status |-> s]
        /\ listing = NoListing
        /\ schema = CurrentSchema
        /\ migration = NoMigration

\* the transition handlers of a request that has been received
RaceStep(c) ==
    \/ /\ req[c].pc = "received"
       /\ req[c].op \in DOMAIN routes
       /\ transitionHandler(c, req[c].op, req[c].id)
    \/ /\ req[c].pc = "received"
       /\ req[c].op = "start"
       /\ handleStart(c, req[c].id)
    \/ handleStartDeps(c)
    \/ /\ req[c].pc = "received"
       /\ req[c].op = "cancel"
       /\ handleCancel(c, req[c].id)
    \/ updateGoalStatus(c)
    \/ updateGoalStatusInsert(c)
    \/ updateGoalStatusCommit(c)

RaceNext ==
    \E c \in Callers :
        /\ RaceStep(c)
        /\ UNCHANGED <<race, listing, schema, migration, clock, lookup, pages>>

RaceSpec == RaceInit /\ [][RaceNext]_vars

\* requests one at a time, from one caller: a request is over before the next
\* one is received.  A PATCH request is received (its route and goal id are
\* then known) before its handler runs.
SeqCaller == CHOOSE c \in Callers : \A d \in Callers : c <= d

receiveRequest(c, op, id) ==
    /\ req[c].pc = "idle"
    /\ goto(c, op, id, 0, "none", "none", "received")
    /\ UNCHANGED <<goals, transitions, comments, goal_dependencies, txn>>

receiveDependencyRequest(c, op, id, dep) ==
    /\ req[c].pc = "idle"
    /\ goto(c, op, id, dep, "none", "none", "received")
    /\ UNCHANGED <<goals, transitions, comments, goal_dependencies, txn>>

SeqStep(c) ==
    \/ \E op \in raceOps, id \in requestIds : receiveRequest(c, op, id)
    \/ \E op \in {"add_dep", "rm_dep"}, id \in requestIds, d \in dependsOnIds :
            receiveDependencyRequest(c, op, id, d)
    \/ RaceStep(c)
    \/ handleCreateGoal(c)
    \/ /\ req[c].pc = "received"
       /\ req[c].op = "add_dep"
       /\ handleAddDependency(c, req[c].id, req[c].dep)
    \/ handleAddDependencyGetDep(c)
    \/ addDependency(c)
    \/ /\ req[c].pc = "received"
       /\ req[c].op = "rm_dep"
       /\ handleRemoveDependency(c, req[c].id, req[c].dep)
    \/ removeDependency(c)
    \/ \E id \in requestIds, b \in {"", "b"} : handleCreateComment(c, id, b)
    \/ createComment(c)

SeqNext ==
    /\ SeqStep(SeqCaller)
    /\ withinBounds(MaxSeqTransitions)'
    /\ UNCHANGED <<race, listing, schema, migration, clock, lookup, pages>>

SeqSpec == Init /\ [][SeqNext]_vars

\* GET /goals requests on a database that earlier requests have filled: up to
\* MaxGoals goals of any status and organisation with any dependency edges
\* between them, or up to MaxListGoals drafts
MaxListGoals == 102

historyOfGoal(id, s) ==
    [i \in 1..(Len(statusPath[s]) - 1) |->
        transitionRecord(id, statusPath[s][i], statusPath[s][i + 1])]

RECURSIVE historiesOf(_, _)
historiesOf(statuses, n) ==
    IF n = 0 THEN <<>>
    ELSE historiesOf(statuses, n - 1) \o historyOfGoal(n, statuses[n])

listFilters ==
    {[status |-> "", org |-> "", repo |-> ""],
     [status |-> "queued", org |-> "", repo |-> ""],
     [status |-> "", org |-> "o", repo |-> ""],
     [status |-> "queued", org |-> "o", repo |-> "r"],
     [status |-> "done", org |-> "p", repo |-> ""]}

pageParams == {absent, notANumber, numeral(-1), numeral(0), numeral(1), numeral(2), numeral(3)}

perPageParams == {absent, notANumber, numeral(-1), numeral(0), numeral(1), numeral(2), numeral(101)}

listQueries ==
    {[status |-> f.status, org |-> f.org, repo |-> f.repo, ready |-> r,
      page |-> pg, per_page |-> pp] :
        f \in listFilters, r \in {"", "true"},
        pg \in pageParams, pp \in perPageParams}

ListInit ==
    /\ clock = 0
    /\ lookup = NoLookup
    /\ pages = <<>>
    /\ \/ \E n \in 0..MaxGoals :
            \E st \in [1..n -> DOMAIN statusPath], og \in [1..n -> {"o", "p"}],
               d \in SUBSET {e \in (1..n) \X (1..n) : e[1] # e[2]} :
                /\ goals = [i \in 1..n |->
                              [createGoal(og[i], "r", "t", "b", "null", "null")
                                  EXCEPT !.status = st[i]]]
                /\ transitions = historiesOf(st, n)
                /\ goal_dependencies = SetToBag(d)
       \/ \E n \in 0..MaxListGoals :
                /\ goals = [i \in 1..n |-> createGoal("o", "r", "t", "b", "null", "null")]
                /\ transitions = <<>>
                /\ goal_dependencies = EmptyBag
    /\ comments = <<>>
    /\ txn = NoTx
    /\ req = [c \in Callers |-> Idle]
    /\ race = NoRace
    /\ listing = NoListing
    /\ schema = CurrentSchema
    /\ migration = NoMigration

\* one list request on each database: the request leaves the database as it
\* is, so a second one is answered like the first
ListNext ==
    \E q \in listQueries :
        /\ listing = NoListing
        /\ handleListGoals(q)
        /\ UNCHANGED pages

ListSpec == ListInit /\ [][ListNext]_vars

\* openDB on a database file as an earlier version of the program, or this
\* one, left it: without tables; or with up to MaxGoals goals of statuses that
\* its CHECK constraint lets through, one transition record for each goal that
\* is no draft, up to MaxComments comments on goal 1, goal 2 depending on goal
\* 1 or not, with or without the columns model and reasoning, and with
\* goal_transitions and goal_comments referencing goals or, after a rename
\* without legacy_alter_table, goals_old.  openDB runs up to MaxMigrations
\* times, as at each start of the program.
MigrateInit ==
    /\ clock = 0
    /\ lookup = NoLookup
    /\ pages = <<>>
    /\ \/ /\ schema = [CurrentSchema EXCEPT !.check = "none"]
          /\ goals = <<>>
          /\ transitions = <<>>
          /\ comments = <<>>
          /\ goal_dependencies = EmptyBag
       \/ \E version \in {"plan", "old", "current"}, n \in 0..MaxGoals :
            \E st \in [1..n -> statusCheck(version)], hints \in BOOLEAN,
               references \in {"goals", "goals_old"},
               k \in 0..(IF n = 0 THEN 0 ELSE MaxComments),
               d \in SUBSET {e \in {<<2, 1>>} : n = 2} :
                /\ schema = [check |-> version, hints |-> hints, references |-> references]
                /\ goals = [i \in 1..n |->
                              [createGoal("o", "r", "t", "b", "null", "null")
                                  EXCEPT !.status = st[i]]]
                /\ transitions = SelectSeq([i \in 1..n |-> transitionRecord(i, "draft", st[i])],
                                           LAMBDA t : t.to_status # "draft")
                /\ comments = [j \in 1..k |-> [id |-> j, goal_id |-> 1, body |-> "b"]]
                /\ goal_dependencies = SetToBag(d)
    /\ txn = NoTx
    /\ req = [c \in Callers |-> Idle]
    /\ race = NoRace
    /\ listing = NoListing
    /\ migration = NoMigration

MigrateNext ==
    /\ \/ openDB
       \/ migrateCreateTables
       \/ migrateAddColumns
       \/ migrateProbe
       \/ migrateProbeRollback
       \/ migrateRecreate
       \/ migrateFixForeignKeys
    /\ UNCHANGED <<req, race, listing, clock, lookup, pages>>

MigrateSpec == MigrateInit /\ [][MigrateNext]_vars

\* concurrent requests while time passes.  Goal 1 has any status, with the
\* history that leads to it, and goal 2 is a draft; the clock stands at 1 and
\* goes up to MaxClock.  A request reads the clock when it enters
\* updateGoalStatus, and makes its UPDATE when it gets the connection.
ClockInit ==
    \E s \in DOMAIN statusPath :
        /\ clock = 1
        /\ lookup = NoLookup
        /\ pages = <<>>
        /\ goals = <<[createGoal("o", "r", "t", "b", "null", "null") EXCEPT !.status = s],
                     createGoal("o", "r", "t", "b", "null", "null")>>
        /\ transitions = historyOf(s)
        /\ comments = <<>>
        /\ goal_dependencies = EmptyBag
        /\ txn = NoTx
        /\ req = [c \in Callers |-> Idle]
        /\ race = NoRace
        /\ listing = NoListing
        /\ schema = CurrentSchema
        /\ migration = NoMigration

\* time passes
tick ==
    /\ clock < MaxClock
    /\ clock' = clock + 1
    /\ UNCHANGED <<goals, transitions, comments, goal_dependencies, txn, req, race,
                   listing, schema, migration, lookup, pages>>

\* one step of a request of caller c: a transition of goal 1, a comment on
\* goal 1, or a dependency edit of goal 2
ClockStep(c) ==
    \/ \E op \in DOMAIN routes : transitionHandler(c, op, 1)
    \/ handleStart(c, 1)
    \/ handleStartDeps(c)
    \/ handleCancel(c, 1)
    \/ timeNow(c)
    \/ req[c].now # 0 /\ updateGoalStatus(c)
    \/ updateGoalStatusInsert(c)
    \/ updateGoalStatusCommit(c)
    \/ handleAddDependency(c, 2, 1)
    \/ handleAddDependencyGetDep(c)
    \/ addDependency(c)
    \/ handleRemoveDependency(c, 2, 1)
    \/ removeDependency(c)
    \/ handleCreateComment(c, 1, "b")
    \/ createComment(c)

ClockNext ==
    \/ \E c \in Callers :
          /\ ClockStep(c)
          /\ withinBounds(MaxClockTransitions)'
          /\ UNCHANGED <<race, listing, schema, migration, clock, lookup, pages>>
    \/ tick

ClockSpec == ClockInit /\ [][ClockNext]_vars

\* concurrent requests under fair scheduling.  A request that has been received
\* is a goroutine of the server: the Go scheduler keeps running it, and the
\* connection pool hands the connection to a request that keeps asking for it.
\* Nothing obliges a client to send a request.
LiveStep(c) ==
    /\ ClockStep(c)
    /\ withinBounds(MaxLiveTransitions)'
    /\ UNCHANGED <<race, listing, schema, migration, clock, lookup, pages>>

LiveNext == \E c \in Callers : LiveStep(c)

LiveSpec ==
    /\ ClockInit
    /\ [][LiveNext]_vars
    /\ \A c \in Callers : SF_vars(req[c].pc # "idle" /\ LiveStep(c))

\* comment requests of concurrent callers on two goals, the first of any
\* status: a request is received (its route and goal id are then known) before
\* its handler runs
CommentInit ==
    \E s \in DOMAIN statusPath :
        /\ clock = 0
        /\ lookup = NoLookup
        /\ pages = <<>>
        /\ goals = <<[createGoal("o", "r", "t", "b", "null", "null") EXCEPT !.status = s],
                     createGoal("o", "r", "t", "b", "null", "null")>>
        /\ transitions = historyOf(s)
        /\ comments = <<>>
        /\ goal_dependencies = EmptyBag
        /\ txn = NoTx
        /\ req = [c \in Callers |-> Idle]
        /\ race = NoRace
        /\ listing = NoListing
        /\ schema = CurrentSchema
        /\ migration = NoMigration

CommentStep(c) ==
    \/ /\ \/ \E op \in {"comment", "list_comments"}, id \in requestIds :
                 receiveRequest(c, op, id)
          \/ /\ req[c].pc = "received"
             /\ req[c].op = "comment"
             /\ \E b \in {"", "b"} : handleCreateComment(c, req[c].id, b)
          \/ createComment(c)
       /\ UNCHANGED listing
    \/ /\ req[c].pc = "received"
       /\ req[c].op = "list_comments"
       /\ handleListComments(c, req[c].id)

CommentNext ==
    \E c \in Callers :
        /\ CommentStep(c)
        /\ Len(comments') + Cardinality({d \in Callers : req'[d].pc = "comment"})
              <= MaxCommentRows
        /\ UNCHANGED <<race, schema, migration, clock, lookup, pages>>

CommentSpec == CommentInit /\ [][CommentNext]_vars

\* calls of canTransition and isTerminal with any two statuses: the six
\* statuses of the CHECK constraint, the retired ones, and a string that is no
\* status
declaredStatuses == statusCheck("current")

anyStatuses == statusCheck("current") \cup statusCheck("old") \cup statusCheck("plan") \cup {""}

callCanTransition ==
    \E from, to \in anyStatuses :
        lookup' = [fn |-> "canTransition", from |-> from, to |-> to,
                   result |-> canTransition(from, to)]

callIsTerminal ==
    \E status \in anyStatuses :
        lookup' = [fn |-> "isTerminal", status |-> status, result |-> isTerminal(status)]

GraphNext ==
    /\ callCanTransition \/ callIsTerminal
    /\ UNCHANGED <<goals, transitions, comments, goal_dependencies, txn, req, race,
                   listing, schema, migration, clock, pages>>

GraphSpec == Init /\ [][GraphNext]_vars

\* calls of hasUnmetDependencies on a database that earlier requests have
\* filled: up to MaxDepGoals goals of any status, with any dependency edges
\* between them but from a goal to itself
ResolverInit ==
    /\ clock = 0
    /\ lookup = NoLookup
    /\ pages = <<>>
    /\ \E n \in 0..MaxDepGoals :
         \E st \in [1..n -> DOMAIN statusPath],
            d \in SUBSET {e \in (1..n) \X (1..n) : e[1] # e[2]} :
             /\ goals = [i \in 1..n |->
                           [createGoal("o", "r", "t", "b", "null", "null")
                               EXCEPT !.status = st[i]]]
             /\ transitions = historiesOf(st, n)
             /\ goal_dependencies = SetToBag(d)
    /\ comments = <<>>
    /\ txn = NoTx
    /\ req = [c \in Callers |-> Idle]
    /\ race = NoRace
    /\ listing = NoListing
    /\ schema = CurrentSchema
    /\ migration = NoMigration

callHasUnmetDependencies ==
    \E goalID \in requestIds :
        lookup' = [fn |-> "hasUnmetDependencies", goalID |-> goalID,
                   result |-> hasUnmetDependencies(goals, deps, goalID)]

ResolverNext ==
    /\ callHasUnmetDependencies
    /\ UNCHANGED <<goals, transitions, comments, goal_dependencies, txn, req, race,
                   listing, schema, migration, clock, pages>>

ResolverSpec == ResolverInit /\ [][ResolverNext]_vars

\* requests one at a time on a database with two goals, the first of any
\* status and with any number of retries up to MaxRetries: no request writes
\* the column, the database file the server is started on may hold any value
RetryInit ==
    \E s \in DOMAIN statusPath, n \in 0..MaxRetries :
        /\ clock = 0
        /\ lookup = NoLookup
        /\ pages = <<>>
        /\ goals = <<[createGoal("o", "r", "t", "b", "null", "null")
                         EXCEPT !.status = s, !.retries = n],
                     createGoal("o", "r", "t", "b", "null", "null")>>
        /\ transitions = historyOf(s)
        /\ comments = <<>>
        /\ goal_dependencies = EmptyBag
        /\ txn = NoTx
        /\ req = [c \in Callers |-> Idle]
        /\ race = NoRace
        /\ listing = NoListing
        /\ schema = CurrentSchema
        /\ migration = NoMigration

\* the transition, dependency and comment requests on the first goal
RetryStep(c) ==
    \/ \E op \in raceOps : receiveRequest(c, op, 1)
    \/ \E op \in {"add_dep", "rm_dep"} : receiveDependencyRequest(c, op, 1, 2)
    \/ RaceStep(c)
    \/ /\ req[c].pc = "received"
       /\ req[c].op = "add_dep"
       /\ handleAddDependency(c, req[c].id, req[c].dep)
    \/ handleAddDependencyGetDep(c)
    \/ addDependency(c)
    \/ /\ req[c].pc = "received"
       /\ req[c].op = "rm_dep"
       /\ handleRemoveDependency(c, req[c].id, req[c].dep)
    \/ removeDependency(c)
    \/ handleCreateComment(c, 1, "b")
    \/ createComment(c)

RetryNext ==
    /\ RetryStep(SeqCaller)
    /\ withinBounds(MaxRetryTransitions)'
    /\ UNCHANGED <<race, listing, schema, migration, clock, lookup, pages>>

RetrySpec == RetryInit /\ [][RetryNext]_vars

\* a client lists the goals under a filter, without pagination, and then asks
\* for page 1, 2, ... under the same filter and with one per_page parameter,
\* up to the page after the first empty one.  No other request is made.
pageSizes == {absent, numeral(1), numeral(2), numeral(101)}

listQuery(f, page, per_page) ==
    [status |-> f.status, org |-> f.org, repo |-> f.repo, ready |-> "",
     page |-> page, per_page |-> per_page]

listAll ==
    /\ pages = <<>>
    /\ \E f \in listFilters : handleListGoals(listQuery(f, absent, absent))
    /\ pages' = <<listing'>>

listFirstPage ==
    /\ Len(pages) = 1
    /\ \E pp \in pageSizes : handleListGoals(listQuery(pages[1].query, numeral(1), pp))
    /\ pages' = Append(pages, listing')

listNextPage ==
    /\ Len(pages) >= 2
    /\ pages[Len(pages) - 1].items # <<>>
    /\ handleListGoals(listQuery(pages[1].query, numeral(Len(pages)),
                                 pages[2].query.per_page))
    /\ pages' = Append(pages, listing')

PageNext == listAll \/ listFirstPage \/ listNextPage

PageSpec == ListInit /\ [][PageNext]_vars

\* ------------------------------------------------------------------- claims
allIdleBut(c) == \A d \in Callers \ {c} : req[d] = Idle

\* C1: in every reachable state the status of every goal, as persisted and as
\* written inside an open transaction, is one of draft, queued, running, done,
\* stuck, cancelled.
C1_StatusInDeclaredSet ==
    /\ \A i \in DOMAIN goals :
          goals[i].status \in {"draft", "queued", "running", "done", "stuck", "cancelled"}
    /\ \A i \in DOMAIN txn.goals :
          txn.goals[i].status \in {"draft", "queued", "running", "done", "stuck", "cancelled"}

\* a lone caller asked for running -> submitted on a running goal without
\* dependencies, the UPDATE was refused, and the goal is still running
C1_Witness ==
    \E c \in Callers :
        /\ allIdleBut(c)
        /\ req[c].pc = "idle"
        /\ req[c].resp = HttpInternal
        /\ deps = {}
        /\ Len(goals) = 1
        /\ goals[1].status = "running"

C3_TerminalNeverChanges ==
    [][\A i \in DOMAIN goals :
          goals[i].status \in {"done", "cancelled"} =>
              /\ i \in DOMAIN goals'
              /\ goals'[i].status = goals[i].status
      ]_vars

\* a lone caller brought the only goal to done and then had a request on it
\* refused with Conflict
C3_Witness ==
    \E c \in Callers :
        /\ allIdleBut(c)
        /\ req[c].pc = "idle"
        /\ req[c].resp = HttpConflict
        /\ Len(goals) = 1
        /\ goals[1].status = "done"

\* C4: every caller sends the same request for one edge of the graph, on one
\* goal whose status is the edge's source.  Under every interleaving at most
\* one request is answered with success and at most one record is written;
\* once all are answered exactly one has succeeded, all others have failed,
\* the goal has the target status and the table has exactly one new record.
C4_ExactlyOneWins ==
    LET to == IF race.op = "start" THEN "running"
              ELSE IF race.op = "cancel" THEN "cancelled" ELSE routes[race.op].to
        edges == {<<"draft", "queued">>, <<"draft", "cancelled">>,
                  <<"queued", "running">>, <<"queued", "cancelled">>,
                  <<"running", "done">>, <<"running", "stuck">>,
                  <<"running", "cancelled">>, <<"stuck", "queued">>,
                  <<"stuck", "cancelled">>}
        sameEdge == /\ <<race.status, to>> \in edges
                    /\ race.op \in DOMAIN routes => routes[race.op].from = race.status
        succeeded == {c \in Callers : req[c].pc = "idle" /\ req[c].resp = HttpOK}
        failed == {c \in Callers : req[c].pc = "idle" /\ req[c].resp >= HttpBadRequest}
        before == historyOf(race.status)
    IN  (race # NoRace /\ sameEdge) =>
            /\ Cardinality(succeeded) <= 1
            /\ Len(transitions) <= Len(before) + 1
            /\ (\A c \in Callers : req[c].pc = "idle") =>
                  /\ Cardinality(succeeded) = 1
                  /\ Cardinality(failed) = NumCallers - 1
                  /\ goals[1].status = to
                  /\ transitions =
                        Append(before, [goal_id |-> 1, from_status |-> race.status,
                                        to_status |-> to])

\* the stuck requests on a running goal have all been answered, one of them
\* with success after the others had read the goal as running
C4_Witness ==
    /\ race = [op |-> "stuck", status |-> "running"]
    /\ \A c \in Callers : req[c].pc = "idle"
    /\ \E c \in Callers : req[c].resp = HttpOK
    /\ \E c \in Callers : req[c].resp = HttpInternal
    /\ goals[1].status = "stuck"

\* C5: a transition or cancel request whose UPDATE matches no row, because the
\* goal's status is no longer the one the request read, is answered with
\* Conflict.
C5_LostRaceIsConflict ==
    [][\A c \in Callers :
          (/\ req[c].pc = "update"
           /\ req'[c].pc = "idle"
           /\ goals[req[c].id].status # req[c].from) =>
              req'[c].resp = HttpConflict
      ]_vars

\* the transition records of goal i, in insertion order
recordsOf(log, i) == SelectSeq(log, LAMBDA t : t.goal_id = i)

\* C6: in every reachable state the records of every goal replay its history
\* from draft (the first record's from is draft, each record's from is the
\* previous record's to, the last record's to is the goal's status; a goal
\* without records is a draft), and in every step a goal gets one more record,
\* from its old to its new status, exactly when its status changes.
C6_AuditReplaysHistory ==
    /\ [](\A i \in DOMAIN goals :
            LET h == recordsOf(transitions, i)
            IN  IF h = <<>>
                THEN goals[i].status = "draft"
                ELSE /\ h[1].from_status = "draft"
                     /\ \A k \in 1..(Len(h) - 1) : h[k + 1].from_status = h[k].to_status
                     /\ h[Len(h)].to_status = goals[i].status)
    /\ [][\A i \in DOMAIN goals :
            IF goals'[i].status # goals[i].status
            THEN recordsOf(transitions', i) =
                    Append(recordsOf(transitions, i),
                           [goal_id |-> i, from_status |-> goals[i].status,
                            to_status |-> goals'[i].status])
            ELSE recordsOf(transitions', i) = recordsOf(transitions, i)
        ]_vars

\* two goals with interleaved records: goal 1 is running, goal 2 is queued
C6_Witness ==
    /\ Len(goals) = 2
    /\ goals[1].status = "running"
    /\ goals[2].status = "queued"
    /\ Len(recordsOf(transitions, 1)) = 2
    /\ Len(recordsOf(transitions, 2)) = 1
    /\ transitions[2].goal_id = 2

\* C7: in every step the goals and the transition records visible outside a
\* transaction change together or not at all: a status changes only together
\* with the one record of that change, a record appears only together with
\* its status change, and an update that matched no row, was refused, or whose
\* record insert failed changes neither table.
C7_AllOrNothing ==
    [][/\ \A i \in DOMAIN goals :
            goals'[i].status # goals[i].status =>
                transitions' = Append(transitions,
                                      [goal_id |-> i, from_status |-> goals[i].status,
                                       to_status |-> goals'[i].status])
       /\ transitions' # transitions =>
            /\ Len(transitions') = Len(transitions) + 1
            /\ SubSeq(transitions', 1, Len(transitions)) = transitions
            /\ LET t == transitions'[Len(transitions')]
               IN  /\ goals[t.goal_id].status = t.from_status
                   /\ goals' = [goals EXCEPT ![t.goal_id].status = t.to_status]
                   /\ t.from_status # t.to_status
       /\ \A c \in Callers :
            (/\ req[c].pc \in {"update", "insert", "commit"}
             /\ req'[c].pc = "idle"
             /\ req'[c].resp # HttpOK) =>
                /\ goals' = goals
                /\ transitions' = transitions
      ]_vars

\* a lone caller's request on a draft goal failed at the record insert: the
\* goal is still a draft and there is no record
C7_Witness ==
    \E c \in Callers :
        /\ allIdleBut(c)
        /\ req[c].pc = "idle"
        /\ req[c].resp = HttpInternal
        /\ Len(goals) = 1
        /\ goals[1].status = "draft"
        /\ transitions = <<>>
        /\ deps = {}

\* C8: a start request on a queued goal with a prerequisite whose status is
\* not done is answered with Conflict and changes neither the goals nor the
\* transition records; on a queued goal whose prerequisites are all done it
\* succeeds and the goal is running.
C8_StartGatedByPrerequisites ==
    [][\A c \in Callers :
          (/\ req[c].op = "start"
           /\ req[c].pc \in transitionPcs
           /\ req'[c].pc = "idle"
           /\ req[c].id \in DOMAIN goals
           /\ goals[req[c].id].status = "queued") =>
          LET id == req[c].id
              prerequisites == {e[2] : e \in {d \in deps : d[1] = id}}
          IN  IF \E p \in prerequisites : goals[p].status # "done"
              THEN /\ req'[c].resp = HttpConflict
                   /\ goals' = goals
                   /\ transitions' = transitions
              ELSE /\ req'[c].resp = HttpOK
                   /\ goals'[id].status = "running"
      ]_vars

\* goal 1 depends on goal 2, goal 2 went all the way to done, and then the
\* start of goal 1 succeeded
C8_Witness ==
    /\ Len(goals) = 2
    /\ <<1, 2>> \in deps
    /\ goals[2].status = "done"
    /\ goals[1].status = "running"
    /\ Len(transitions) = 5
    /\ transitions[5] = transitionRecord(1, "queued", "running")
    /\ req[SeqCaller].pc = "idle"
    /\ req[SeqCaller].resp = HttpOK

\* C9: in every step in which a goal goes from queued to running, every
\* dependency edge the goal has at that moment points to a goal that is done.
C9_RunningOnlyWithDonePrerequisites ==
    [][\A i \in DOMAIN goals :
          (goals[i].status = "queued" /\ goals'[i].status = "running") =>
              \A e \in deps' : e[1] = i => goals'[e[2]].status = "done"
      ]_vars

\* C10: in every step in which a dependency edge of a goal is inserted or
\* deleted, the persisted status of that goal is draft, queued or stuck.
C10_EdgesChangeOnlyWhileInactive ==
    [][\A e \in (deps' \ deps) \cup (deps \ deps') :
          goals[e[1]].status \in {"draft", "queued", "stuck"}
      ]_vars

\* C11: once a goal B is done, hasUnmetDependencies never counts an edge A -> B
\* as unmet, in that state and after every later step, for every goal A.
C11_ReadinessMonotone ==
    [][\A a \in DOMAIN goals, b \in DOMAIN goals :
          (a # b /\ goals[b].status = "done") =>
              /\ ~hasUnmetDependencies(goals, {<<a, b>>}, a)
              /\ ~hasUnmetDependencies(goals', {<<a, b>>}, a)
      ]_vars

\* goal 2 is done, goal 1 depends on it, and the start request of goal 1 has
\* just passed the hasUnmetDependencies query
C11_Witness ==
    /\ Len(goals) = 2
    /\ deps = {<<1, 2>>}
    /\ goals[2].status = "done"
    /\ goals[1].status = "queued"
    /\ req[SeqCaller].pc = "update"
    /\ req[SeqCaller].op = "start"
    /\ req[SeqCaller].id = 1

\* C12: a list request with ready=true returns exactly the goals that match
\* the status, organisation and repository filters and have no prerequisite
\* short of done.
C12_ReadyFilter ==
    (listing.code = HttpOK /\ listing.query.ready = "true" /\ ~listing.paginated) =>
        LET q == listing.query
            listed == {listing.items[j].id : j \in 1..Len(listing.items)}
        IN  listed = {i \in DOMAIN goals :
                        /\ q.status = "" \/ goals[i].status = q.status
                        /\ q.org = "" \/ goals[i].org = q.org
                        /\ q.repo = "" \/ goals[i].repo = q.repo
                        /\ ~\E e \in deps : e[1] = i /\ goals[e[2]].status # "done"}

\* C13: a cancel request on a draft, queued, running or stuck goal succeeds,
\* sets the status to cancelled and appends exactly one record, from the status
\* the goal had to cancelled; on a done or cancelled goal it is answered with
\* Conflict and neither the goals nor the transition records change.
C13_Cancel ==
    [][\A c \in Callers :
          (/\ req[c].op = "cancel"
           /\ req[c].pc \in transitionPcs
           /\ req'[c].pc = "idle"
           /\ req[c].id \in DOMAIN goals) =>
          LET id == req[c].id
              had == goals[id].status
          IN  IF had \in {"draft", "queued", "running", "stuck"}
              THEN /\ req'[c].resp = HttpOK
                   /\ goals' = [goals EXCEPT ![id].status = "cancelled"]
                   /\ transitions' =
                         Append(transitions, [goal_id |-> id, from_status |-> had,
                                              to_status |-> "cancelled"])
              ELSE /\ req'[c].resp = HttpConflict
                   /\ goals' = goals
                   /\ transitions' = transitions
      ]_vars

\* a stuck goal has been cancelled: the fourth record is stuck -> cancelled
C13_Witness ==
    /\ req[SeqCaller].pc = "idle"
    /\ req[SeqCaller].resp = HttpOK
    /\ goals[1].status = "cancelled"
    /\ Len(transitions) = 4
    /\ transitions[4] = [goal_id |-> 1, from_status |-> "stuck", to_status |-> "cancelled"]

\* C14: in every step that adds a goal, exactly one goal is added, its status
\* is draft, it has no transition record, its identity is greater than every
\* identity in use before, and the goals that were there are unchanged.
C14_CreateMakesDraft ==
    [][Len(goals') # Len(goals) =>
          /\ Len(goals') = Len(goals) + 1
          /\ \A i \in DOMAIN goals : Len(goals') > i /\ goals'[i] = goals[i]
          /\ goals'[Len(goals')].status = "draft"
          /\ recordsOf(transitions', Len(goals')) = <<>>
          /\ \E c \in Callers : req[c].pc = "idle" /\ req'[c].resp = HttpCreated
      ]_vars

\* a lone caller queued goal 1 and then created goal 2
C14_Witness ==
    \E c \in Callers :
        /\ allIdleBut(c)
        /\ req[c].pc = "idle"
        /\ req[c].resp = HttpCreated
        /\ comments = <<>>
        /\ deps = {}
        /\ Len(goals) = 2
        /\ goals[1].status = "queued"
        /\ goals[2].status = "draft"
        /\ Len(transitions) = 1

\* C15: a request answered as Invalid changes no goal, transition record,
\* comment or dependency edge; every goal that is created has a non-empty
\* org, repo, title and body and a model and a reasoning that are absent or
\* in their closed sets; every comment that is created has a non-empty body.
C15_InvalidTouchesNothing ==
    [][/\ \A c \in Callers :
            (req'[c] # req[c] /\ req'[c].pc = "idle" /\ req'[c].resp = HttpBadRequest) =>
                UNCHANGED <<goals, transitions, comments, deps>>
       /\ Len(goals') > Len(goals) =>
            LET g == goals'[Len(goals')]
            IN  /\ g.org # "" /\ g.repo # "" /\ g.title # "" /\ g.body # ""
                /\ g.model \in {"null", "haiku", "sonnet", "opus"}
                /\ g.reasoning \in {"null", "none", "low", "med", "high"}
       /\ Len(comments') > Len(comments) => comments'[Len(comments')].body # ""
      ]_vars

\* a create request was answered as Invalid on an empty database
C15_Witness ==
    /\ req[SeqCaller].pc = "idle"
    /\ req[SeqCaller].resp = HttpBadRequest
    /\ goals = <<>>
    /\ comments = <<>>

\* the steps of a request that names a missing goal change no goal, record or
\* edge and end in NotFound; a missing prerequisite counts for every status of
\* the goal itself when anyStatus, else only for draft, queued and stuck
notFoundSteps(anyStatus) ==
    \A c \in Callers :
        LET r == req[c]
            dependency == r.op \in {"add_dep", "rm_dep"}
            noGoal == r.id \notin DOMAIN goals
            noPrerequisite == /\ dependency
                              /\ r.id \in DOMAIN goals
                              /\ anyStatus \/ goals[r.id].status \in {"draft", "queued", "stuck"}
                              /\ r.dep # 0
                              /\ r.dep \notin DOMAIN goals
        IN  (r.pc # "idle" /\ (r.op \in raceOps \/ dependency)
               /\ (noGoal \/ noPrerequisite)) =>
                /\ UNCHANGED <<goals, transitions, deps>>
                /\ req'[c] # r => req'[c].pc = "idle" \/ ~noGoal
                /\ req'[c].pc = "idle" => req'[c].resp = HttpNotFound

\* C16 as stated: a transition, cancel or dependency request that names a goal
\* identity that does not exist, as the goal or as the prerequisite, is
\* answered with NotFound and changes no goal, transition record or edge.
C16_NotFoundWhateverTheStatus == [][notFoundSteps(TRUE)]_vars

\* C16 amended: a transition, cancel or dependency request on a goal identity
\* that does not exist is answered with NotFound; so is an add or remove of a
\* dependency whose prerequisite does not exist, when the goal itself is a
\* draft, queued or stuck; in both cases no goal, transition record or
\* dependency edge changes, from the receipt of the request to its answer.
C16_NotFoundTouchesNothing == [][notFoundSteps(FALSE)]_vars

\* on a database with one draft and nothing else, a request that names a
\* second goal was answered with NotFound
C16_Witness ==
    /\ Len(goals) = 1
    /\ goals[1].status = "draft"
    /\ deps = {}
    /\ transitions = <<>>
    /\ comments = <<>>
    /\ req[SeqCaller].pc = "idle"
    /\ req[SeqCaller].resp = HttpNotFound

\* C17: in every reachable state each pair (goal, prerequisite) has at most one
\* row in the dependency table, no row has the goal as its own prerequisite,
\* and both ends of every row are existing goals; and a request to make a goal
\* depend on itself adds no row and is not answered with success.
C17_EdgesWellFormed ==
    /\ [](\A e \in DOMAIN goal_dependencies :
             /\ goal_dependencies[e] = 1
             /\ e[1] # e[2]
             /\ e[1] \in DOMAIN goals
             /\ e[2] \in DOMAIN goals)
    /\ [][\A c \in Callers :
             (req[c].pc # "idle" /\ req[c].op = "add_dep" /\ req[c].dep = req[c].id) =>
                 /\ goal_dependencies' = goal_dependencies
                 /\ req'[c] # req[c] =>
                        req'[c].pc = "idle" /\ req'[c].resp \notin {HttpOK, HttpCreated}
       ]_vars

\* two goals that depend on each other, one row for each direction, and the
\* last request, one such as making a goal depend on itself, was refused as
\* invalid
C17_Witness ==
    /\ Len(goals) = 2
    /\ goal_dependencies = SetToBag({<<1, 2>>, <<2, 1>>})
    /\ req[SeqCaller].pc = "idle"
    /\ req[SeqCaller].resp = HttpBadRequest

\* C18: an add of a dependency edge that already exists, on reaching the
\* insert, is answered with Conflict and leaves exactly one row for the pair.
C18_DuplicateEdgeIsConflict ==
    [][\A c \in Callers :
          LET pair == <<req[c].id, req[c].dep>>
          IN  (req[c].pc = "dep_add" /\ pair \in deps /\ req'[c] # req[c]) =>
                  /\ req'[c].pc = "idle"
                  /\ req'[c].resp = HttpConflict
                  /\ CopiesIn(pair, goal_dependencies') = 1
      ]_vars

\* C19: the removal of a dependency edge that has no row is answered with
\* NotFound and leaves the table as it was; the removal of an edge that has a
\* row is answered with success, deletes the row of that pair and leaves the
\* rows of every other pair as they were.
C19_RemoveExactlyThatEdge ==
    [][\A c \in Callers :
          LET pair == <<req[c].id, req[c].dep>>
          IN  (req[c].pc = "dep_rm" /\ req'[c] # req[c]) =>
                  /\ req'[c].pc = "idle"
                  /\ IF pair \notin deps
                     THEN /\ req'[c].resp = HttpNotFound
                          /\ goal_dependencies' = goal_dependencies
                     ELSE /\ req'[c].resp = HttpOK
                          /\ deps' = deps \ {pair}
                          /\ \A e \in deps' :
                                CopiesIn(e, goal_dependencies') = CopiesIn(e, goal_dependencies)
      ]_vars

\* two drafts that never moved: an answer of 200 can only be that of a
\* removal, and the edge of the other direction is still there
C19_Witness ==
    /\ Len(goals) = 2
    /\ transitions = <<>>
    /\ goal_dependencies = SetToBag({<<2, 1>>})
    /\ \E c \in Callers : allIdleBut(c) /\ req[c].pc = "idle" /\ req[c].resp = HttpOK

\* the smaller and the larger of two integers
min(a, b) == IF a < b THEN a ELSE b

max(a, b) == IF a > b THEN a ELSE b

\* the goals that match the status, org and repo of query q
matching(q) ==
    {i \in DOMAIN goals :
        /\ q.status = "" \/ goals[i].status = q.status
        /\ q.org = "" \/ goals[i].org = q.org
        /\ q.repo = "" \/ goals[i].repo = q.repo}

\* the answered list request asked for page P >= 1 with page size S >= 1
askedForPage ==
    /\ listing # NoListing
    /\ listing.query.page.numeric
    /\ listing.query.page.n >= 1
    /\ listing.query.per_page.numeric
    /\ listing.query.per_page.n >= 1

\* C20 as stated: a list request for page P >= 1 of size S >= 1 returns exactly
\* min(S, total - (P-1)*S) items, total being the number of goals that match
\* the status, org and repo filter.
C20_PageLength ==
    askedForPage =>
        LET P == listing.query.page.n
            S == listing.query.per_page.n
            total == Cardinality(matching(listing.query))
        IN  /\ listing.code = HttpOK
            /\ Len(listing.items) = min(S, total - (P - 1) * S)

\* C20 amended: a list request for page P >= 1 of size S >= 1 returns exactly
\* max(0, min(S', total - (P-1)*S')) items, where S' is S capped at 100 and
\* total is the number of goals that match the status, org and repo filter.
C20_PageLengthCapped ==
    askedForPage =>
        LET P == listing.query.page.n
            S == min(listing.query.per_page.n, MaxPerPage)
            total == Cardinality(matching(listing.query))
        IN  /\ listing.code = HttpOK
            /\ Len(listing.items) = max(0, min(S, total - (P - 1) * S))

\* page 2 of size 2 of three goals: the one goal that is left
C20_Witness ==
    /\ askedForPage
    /\ listing.query.page.n = 2
    /\ listing.query.per_page.n = 2
    /\ Cardinality(matching(listing.query)) = 3
    /\ Len(listing.items) = 1

\* C21: a paginated list of page P with page size S (the per_page of the
\* response) holds goals that match the status, org and repo filter, the j-th
\* item being the one with exactly (P-1)*S + j - 1 matching goals of larger
\* identity, so the items are in strictly descending identity order from
\* offset (P-1)*S; and its total is the number of all matching goals.
C21_PageOrderAndTotal ==
    (listing.code = HttpOK /\ listing.paginated) =>
        LET M == matching(listing.query)
            offset == (listing.page - 1) * listing.per_page
        IN  /\ listing.total = Cardinality(M)
            /\ \A j \in 1..Len(listing.items) :
                  LET id == listing.items[j].id
                  IN  /\ id \in M
                      /\ listing.items[j] = goalSummary(goals, id)
                      /\ Cardinality({m \in M : m > id}) = offset + j - 1

\* page 2 of size 1 of three goals: the goal of the second largest identity
C21_Witness ==
    /\ listing.code = HttpOK
    /\ listing.paginated
    /\ listing.page = 2
    /\ listing.per_page = 1
    /\ listing.total = 3
    /\ Len(listing.items) = 1
    /\ listing.items[1].id = 2

\* C22: a list request without a page parameter (and without ready) succeeds
\* and returns every goal that matches each of the status, org and repo
\* filters that is given, exactly, each such goal once and no other, in a
\* response that has no page, per_page or total field.
C22_UnpaginatedReturnsAll ==
    (listing # NoListing /\ ~listing.query.page.present /\ listing.query.ready = "") =>
        /\ listing.code = HttpOK
        /\ {listing.items[j].id : j \in 1..Len(listing.items)} = matching(listing.query)
        /\ Len(listing.items) = Cardinality(matching(listing.query))
        /\ \A j \in 1..Len(listing.items) :
              listing.items[j] = goalSummary(goals, listing.items[j].id)
        /\ DOMAIN listing \cap {"page", "per_page", "total"} = {}

\* two goals of different organisations, listed with org=o and per_page=1 but
\* no page: the one goal of that organisation, no pagination
C22_Witness ==
    /\ Len(goals) = 2
    /\ goals[1].org = "o"
    /\ goals[2].org = "p"
    /\ listing.code = HttpOK
    /\ ~listing.query.page.present
    /\ listing.query.per_page = numeral(1)
    /\ listing.query.org = "o"
    /\ listing.query.ready = ""
    /\ Len(listing.items) = 1
    /\ listing.items[1].id = 1

\* C23: a list request with a page parameter is answered with a page whose
\* size is 20 when per_page is omitted and the smaller of per_page and 100
\* otherwise: the response reports that size, holds no more items than it, and
\* holds that many when enough goals are left; but when page, or a per_page
\* that is given, is zero, negative or not an integer, the request is rejected
\* as invalid and the response holds no items.
C23_EffectivePageSize ==
    (listing # NoListing /\ listing.query.page.present) =>
        LET q == listing.query
            positive(param) == param.numeric /\ param.n >= 1
            size == IF q.per_page.present THEN min(q.per_page.n, 100) ELSE 20
            left == Cardinality(matching(q)) - (q.page.n - 1) * size
        IN  IF positive(q.page) /\ (~q.per_page.present \/ positive(q.per_page))
            THEN /\ listing.code = HttpOK
                 /\ listing.per_page = size
                 /\ Len(listing.items) <= size
                 /\ left >= size => Len(listing.items) = size
            ELSE /\ listing.code = HttpBadRequest
                 /\ "items" \notin DOMAIN listing

\* page 2 without per_page of 41 goals or more: a full page of 20 items
C23_Witness ==
    /\ listing.code = HttpOK
    /\ listing.query.page = numeral(2)
    /\ ~listing.query.per_page.present
    /\ Len(goals) > 40
    /\ listing.per_page = 20
    /\ Len(listing.items) = 20

\* the transition request of caller c asks again for what was last done to its
\* goal: the newest transition record of the goal is the one that this route,
\* start or cancel writes
reissued(c) ==
    LET r == req[c]
        log == recordsOf(transitions, r.id)
        newest == log[Len(log)]
    IN  /\ r.pc \in transitionPcs
        /\ r.op \in raceOps
        /\ r.id \in DOMAIN goals
        /\ log # <<>>
        /\ goals[r.id].status = newest.to_status
        /\ IF r.op = "cancel" THEN newest.to_status = "cancelled"
           ELSE IF r.op = "start"
           THEN newest.from_status = "queued" /\ newest.to_status = "running"
           ELSE /\ newest.from_status = routes[r.op].from
                /\ newest.to_status = routes[r.op].to

\* C24: a transition or cancel request that asks again for the transition
\* that was the last one applied to its goal is answered with Conflict, and
\* changes neither the status of any goal nor the transition records.
C24_RetryIsConflict ==
    [][\A c \in Callers :
          (reissued(c) /\ req'[c] # req[c]) =>
              /\ req'[c].pc = "idle"
              /\ req'[c].resp = HttpConflict
              /\ goals' = goals
              /\ transitions' = transitions
      ]_vars

\* a goal that was queued, started, reported stuck and requeued, and nothing
\* since: the last request, which can only have been one that failed, was
\* answered with Conflict
C24_Witness ==
    /\ Len(goals) = 1
    /\ goals[1].status = "queued"
    /\ Len(transitions) = 4
    /\ transitions[4].from_status = "stuck"
    /\ req[SeqCaller].pc = "idle"
    /\ req[SeqCaller].resp = HttpConflict

\* C25: when openDB finds the current schema, no step of migrate changes a
\* goal, a transition record, a comment, a dependency edge or the schema, and
\* none fails; so migrate returns without error and the goals table is as it
\* was found, without the row of the test INSERT.
C25_MigrateIdempotent ==
    /\ [][(migration.pc # "open" /\ migration.foundSchema = CurrentSchema) =>
             /\ UNCHANGED <<goals, transitions, comments, goal_dependencies, schema>>
             /\ migration'.err = "nil"
         ]_vars
    /\ []((migration.pc = "open" /\ migration.runs > 0
            /\ migration.foundSchema = CurrentSchema) =>
               /\ migration.err = "nil"
               /\ goals = migration.found
               /\ txn = NoTx)

\* migrate has run on a database of the current schema with two goals, a
\* transition record, a comment and a dependency edge, and has returned
C25_Witness ==
    /\ migration.pc = "open"
    /\ migration.runs = 1
    /\ migration.foundSchema = CurrentSchema
    /\ Len(goals) = 2
    /\ transitions # <<>>
    /\ comments # <<>>
    /\ deps # {}

\* migrate has run once, on a database whose goals table had one of the
\* constraints named in older, and has returned: every goal that was found is
\* there under its identity, unchanged but for its status, which is done for
\* submitted and merged, cancelled for rejected and else as it was, and which
\* is one of the current statuses; and every transition record and comment
\* names a goal of the table that its foreign key references
migratedFrom(older) ==
    (migration.pc = "open" /\ migration.runs = 1
       /\ migration.foundSchema.check \in older) =>
        LET found == migration.found
            mapped(status) == IF status \in {"submitted", "merged"} THEN "done"
                              ELSE IF status = "rejected" THEN "cancelled"
                              ELSE status
        IN  /\ migration.err = "nil"
            /\ Len(goals) = Len(found)
            /\ \A i \in DOMAIN found :
                  /\ goals[i] = [found[i] EXCEPT !.status = mapped(found[i].status)]
                  /\ goals[i].status \in {"draft", "queued", "running", "done",
                                          "stuck", "cancelled"}
            /\ schema.references = "goals"
            /\ \A j \in DOMAIN transitions : transitions[j].goal_id \in DOMAIN goals
            /\ \A j \in DOMAIN comments : comments[j].goal_id \in DOMAIN goals

\* C26: after migrate has run on a database created under an older status
\* constraint (that of PLAN.md, or the one with submitted, merged and
\* rejected), every goal that existed still exists with the same identity,
\* every status is in the current set (submitted and merged became done,
\* rejected became cancelled, others are kept), and every transition record
\* and comment still refers to its goal.
C26_MigrationRemaps == migratedFrom({"plan", "old"})

\* C27: in every step the updated timestamp of no goal decreases; for a
\* goal whose status changes it becomes the time at which its request read
\* the clock, which is not before the time it held; and for a goal whose
\* status does not change it stays as it is.
C27_UpdatedAtMonotone ==
    [][\A i \in DOMAIN goals :
          /\ goals'[i].updated_at >= goals[i].updated_at
          /\ goals'[i].status = goals[i].status =>
                goals'[i].updated_at = goals[i].updated_at
          /\ goals'[i].status # goals[i].status =>
                \E c \in Callers : req[c].pc = "commit" /\ req'[c].pc = "idle"
                                   /\ goals'[i].updated_at = req[c].now
      ]_vars

\* C28: under fair scheduling every request in progress eventually ends with a response, a success or a failure; and a caller that holds the connection, in a transaction, is never at a step that asks the pool for the connection.
C28_EveryRequestReturns ==
    /\ \A c \in Callers :
          (req[c].pc # "idle") ~> (req[c].pc = "idle" /\ req[c].resp # 0)
    /\ [](\A c \in Callers : txn.owner = c => req[c].pc \in {"insert", "commit"})

\* a request waits for the connection, which the transaction of another
\* request holds
C28_Witness ==
    \E c, d \in Callers :
        /\ txn.owner = c
        /\ req[c].pc = "commit"
        /\ req[d].pc = "update"
        /\ req[d].now # 0

\* the columns of a goal that make it the goal that was created
created(g) == [org |-> g.org, repo |-> g.repo, title |-> g.title, body |-> g.body]

\* C29: in every step every goal that existed still exists, as the goal that was created, and every transition record that had been appended is still there, unchanged and at its place: the goals and the transition records only grow.
C29_HistoryAppendOnly ==
    [][/\ Len(goals') >= Len(goals)
       /\ \A i \in DOMAIN goals : created(goals'[i]) = created(goals[i])
       /\ Len(transitions') >= Len(transitions)
       /\ SubSeq(transitions', 1, Len(transitions)) = transitions
      ]_vars

\* all the goals and all the transition records that the bounds allow have been
\* written, the latest transition on top of an earlier one of the same goal
C29_Witness ==
    /\ Len(goals) = MaxGoals
    /\ Len(transitions) = MaxTransitions
    /\ transitions[MaxTransitions].goal_id = transitions[1].goal_id
    /\ txn = NoTx

\* the comments of goal id among rows
commentsOf(rows, id) == {rows[k] : k \in {j \in DOMAIN rows : rows[j].goal_id = id}}

\* what the claim says of the steps of comment requests; a list request on a
\* missing goal is NotFound when listNeedsGoal
commentSteps(listNeedsGoal) ==
    \A c \in Callers :
        LET r == req[c]
            handled == r.pc = "received" /\ req'[c] # r
            status(g) == [i \in DOMAIN g |-> g[i].status]
        IN  /\ (handled /\ r.op = "comment" /\ r.id \notin DOMAIN goals) =>
                  /\ req'[c].pc = "idle"
                  /\ req'[c].resp = HttpNotFound
                  /\ comments' = comments
            /\ (listNeedsGoal /\ handled /\ r.op = "list_comments" /\ r.id \notin DOMAIN goals) =>
                  /\ req'[c].pc = "idle"
                  /\ req'[c].resp = HttpNotFound
            /\ (r.pc = "comment" /\ req'[c].pc = "idle") =>
                  /\ r.id \in DOMAIN goals
                  /\ req'[c].resp = HttpCreated
                  /\ Len(comments') = Len(comments) + 1
                  /\ SubSeq(comments', 1, Len(comments)) = comments
                  /\ comments'[Len(comments')].goal_id = r.id
                  /\ status(goals') = status(goals)
            /\ (handled /\ r.op = "list_comments" /\ r.id \in DOMAIN goals) =>
                  LET items == listing'.items
                  IN  /\ req'[c].resp = HttpOK
                      /\ {items[k] : k \in DOMAIN items} = commentsOf(comments, r.id)
                      /\ \A j, k \in DOMAIN items : j < k => items[j].id < items[k].id
                      /\ comments' = comments
                      /\ status(goals') = status(goals)

\* C30: a request to add a comment and a request to list comments, on a goal id that does not exist, end in NotFound; on a goal that exists, adding appends exactly one comment, of that goal, changes no comment that was there and no goal status, and listing answers the comments of the goal, each once, in the order of their creation.
C30_CommentsNeedGoal ==
    [][commentSteps(TRUE)]_vars

\* C31: a call canTransition(from, to) returns true exactly when to is listed for from in the declared graph, and as the test table says; a call isTerminal(s) on a declared status returns true exactly when s is done or cancelled, as the test table says, and done and cancelled are exactly the declared statuses without an outgoing edge.
C31_GraphLookup ==
    /\ lookup.fn = "canTransition" =>
          /\ lookup.result <=> (\E i \in 1..3 :
                                    /\ lookup.from \in DOMAIN validTransitions
                                    /\ i <= Len(validTransitions[lookup.from])
                                    /\ validTransitions[lookup.from][i] = lookup.to)
          /\ \A t \in TestCanTransition :
                (t.from = lookup.from /\ t.to = lookup.to) => lookup.result = t.valid
    /\ (lookup.fn = "isTerminal" /\ lookup.status \in declaredStatuses) =>
          /\ lookup.result <=> lookup.status \in {"done", "cancelled"}
          /\ \A t \in TestTerminalStatuses :
                t.status = lookup.status => lookup.result = t.terminal
          /\ lookup.result <=> lookup.status \notin DOMAIN validTransitions

\* the second target of a status was looked up and found
C31_Witness ==
    /\ lookup.fn = "canTransition"
    /\ lookup.from = "running"
    /\ lookup.to = "stuck"
    /\ lookup.result

\* C32: a call hasUnmetDependencies(G) returns true exactly when G has a dependency edge to a goal whose status is not done: false for a goal without edges, true when a prerequisite is cancelled, stuck, draft, queued or running, whatever the other prerequisites are.
C32_UnmetDependencies ==
    lookup.fn = "hasUnmetDependencies" =>
        LET G == lookup.goalID
            prerequisites == {e[2] : e \in {d \in deps : d[1] = G}}
        IN  /\ lookup.result <=> \E p \in prerequisites : goals[p].status # "done"
            /\ prerequisites = {} => ~lookup.result
            /\ (\E p \in prerequisites :
                   goals[p].status \in {"cancelled", "stuck", "draft", "queued", "running"})
                  => lookup.result

\* the call was made for a goal with a done and a cancelled prerequisite
C32_Witness ==
    /\ lookup.fn = "hasUnmetDependencies"
    /\ lookup.goalID = 1
    /\ deps = {<<1, 2>>, <<1, 3>>}
    /\ goals[2].status = "done"
    /\ goals[3].status = "cancelled"
    /\ lookup.result

\* the goals that the edges d lead to from the goals S, in one step and in any
\* number of steps
successors(d, S) == {e[2] : e \in {x \in d : x[1] \in S}}

RECURSIVE closure(_, _)
closure(d, S) ==
    LET T == S \cup successors(d, S)
    IN  IF T = S THEN S ELSE closure(d, T)

onCycle(d, i) == i \in closure(d, successors(d, {i}))

\* the edges between goals that are queued or, once queued, were cancelled
waitingEdges ==
    {e \in deps : /\ e[1] \in DOMAIN goals /\ e[2] \in DOMAIN goals
                  /\ goals[e[1]].status \in {"queued", "cancelled"}
                  /\ goals[e[2]].status \in {"queued", "cancelled"}}

\* C33: in every step, a goal that is on a cycle of dependency edges among goals that are queued, or were cancelled since, is queued or cancelled after the step, and cancelled if it was: it does not reach running (a step that removes an edge of the cycle changes no status).
C33_CycleNeverRuns ==
    [][\A i \in DOMAIN goals :
          onCycle(waitingEdges, i) =>
              /\ goals'[i].status \in {"queued", "cancelled"}
              /\ goals[i].status = "cancelled" => goals'[i].status = "cancelled"
      ]_vars

\* C34: no step changes the retries of a goal; and every step of a requeue request on a stuck goal, whatever its retries, takes the request on, up to the response OK with the goal queued.
C34_RetriesAreNoGate ==
    [][/\ \A i \in DOMAIN goals : goals'[i].retries = goals[i].retries
       /\ \A c \in Callers :
            LET r == req[c]
            IN  (/\ r.op = "requeue"
                 /\ r.pc \in {"received", "update", "insert", "commit"}
                 /\ r.id \in DOMAIN goals
                 /\ goals[r.id].status = "stuck"
                 /\ req'[c] # r) =>
                    \/ /\ r.pc # "commit"
                       /\ req'[c].pc \in {"update", "insert", "commit"}
                       /\ goals' = goals
                    \/ /\ r.pc = "commit"
                       /\ req'[c].pc = "idle"
                       /\ req'[c].resp = HttpOK
                       /\ goals'[r.id].status = "queued"
      ]_vars

\* a goal with MaxRetries retries has gone round queued, running, stuck and
\* queued again twice
C34_Witness ==
    /\ goals[1].retries = MaxRetries
    /\ goals[1].status = "queued"
    /\ Cardinality({k \in DOMAIN transitions :
                       transitions[k] = transitionRecord(1, "stuck", "queued")}) = 2
    /\ req[SeqCaller].pc = "idle"
    /\ req[SeqCaller].resp = HttpOK

prerequisitesOf(d, i) == {e[2] : e \in {x \in d : x[1] = i}}

\* C36: with requests one at a time, in every reachable state every prerequisite of a goal that is running or done is done; and in every step a goal that is running or done gets no edge, and a goal that is done stays done.
C36_ActiveGoalsHaveDonePrerequisites ==
    /\ [](\A i \in DOMAIN goals :
            goals[i].status \in {"running", "done"} =>
                \A p \in prerequisitesOf(deps, i) : goals[p].status = "done")
    /\ [][\A i \in DOMAIN goals :
            /\ goals[i].status \in {"running", "done"} =>
                  prerequisitesOf(deps', i) \subseteq prerequisitesOf(deps, i)
            /\ goals[i].status = "done" => goals'[i].status = "done"
         ]_vars

\* goal 2 depends on goal 1, goal 1 went all the way to done, and goal 2 is
\* running
C36_Witness ==
    /\ Len(goals) = 2
    /\ deps = {<<2, 1>>}
    /\ goals[1].status = "done"
    /\ goals[2].status = "running"
    /\ req[SeqCaller].pc = "idle"

\* C37: in every step from a state in which goal A has an edge to a cancelled goal B: a start request on A that ends in the step ends in Conflict; and if the edge is still there after the step, A is neither running nor done and B is still cancelled, so that A leaves this condition only by being cancelled or by losing the edge.
C37_CancelledPrerequisiteBlocks ==
    [][\A a \in DOMAIN goals, b \in DOMAIN goals :
          (<<a, b>> \in deps /\ goals[b].status = "cancelled") =>
              /\ \A c \in Callers :
                    (/\ req[c].op = "start"
                     /\ req[c].id = a
                     /\ req[c].pc # "idle"
                     /\ req'[c].pc = "idle") => req'[c].resp = HttpConflict
              /\ <<a, b>> \in deps' =>
                    /\ goals'[a].status \notin {"running", "done"}
                    /\ goals'[b].status = "cancelled"
      ]_vars

\* C38: the step in which a transition or cancel request on goal G succeeds changes, of the goals, only the status and the updated timestamp of G: every other goal and G's org, repo, title, body, retries, model and reasoning are as before; it appends one transition record, of G, and leaves the records before it, the dependency edges and the comments as they were.
C38_TransitionFrame ==
    [][\A c \in Callers :
          (req[c].pc = "commit" /\ req'[c].pc = "idle" /\ req'[c].resp = HttpOK) =>
              LET G == req[c].id
              IN  /\ DOMAIN goals' = DOMAIN goals
                  /\ \A i \in DOMAIN goals \ {G} : goals'[i] = goals[i]
                  /\ [goals'[G] EXCEPT !.status = goals[G].status,
                                       !.updated_at = goals[G].updated_at] = goals[G]
                  /\ goals'[G].status = req[c].to
                  /\ Len(transitions') = Len(transitions) + 1
                  /\ SubSeq(transitions', 1, Len(transitions)) = transitions
                  /\ transitions'[Len(transitions')].goal_id = G
                  /\ goal_dependencies' = goal_dependencies
                  /\ comments' = comments
      ]_vars

\* goal 1 has a comment and a dependent goal and was cancelled at a later time
\* than it was created; goal 2 is the draft it was
C38_Witness ==
    /\ goals[1].status = "cancelled"
    /\ goals[1].updated_at = MaxClock
    /\ goals[2].status = "draft"
    /\ goals[2].updated_at = 1
    /\ deps = {<<2, 1>>}
    /\ Len(comments) = 1
    /\ transitions[Len(transitions)] = transitionRecord(1, "running", "cancelled")
    /\ \E c \in Callers : allIdleBut(c) /\ req[c].pc = "idle" /\ req[c].resp = HttpOK

\* the items of the responses ps[k], ps[k + 1], ... one after the other
RECURSIVE concatenation(_, _)
concatenation(ps, k) ==
    IF k > Len(ps) THEN <<>> ELSE ps[k].items \o concatenation(ps, k + 1)

\* C39: when a client has listed the goals without pagination and then the pages 1, 2, ... under the same filter and page size, the items of the pages, one after the other, are the first items of the unpaginated list, none skipped or repeated; once a page is empty they are the whole unpaginated list, and every page after it is empty.
C39_PagesMakeTheList ==
    Len(pages) >= 2 =>
        LET all == pages[1].items
            got == concatenation(pages, 2)
        IN  /\ \A k \in DOMAIN pages : pages[k].code = HttpOK
            /\ Len(got) <= Len(all)
            /\ got = SubSeq(all, 1, Len(got))
            /\ \A k \in 2..Len(pages) :
                  pages[k].items = <<>> =>
                      /\ got = all
                      /\ \A j \in k..Len(pages) : pages[j].items = <<>>

\* three goals match the filter; with two on a page, page 1 is full, page 2
\* has the third, and page 3 and page 4 are empty
C39_Witness ==
    /\ Len(pages) = 5
    /\ Len(pages[1].items) = 3
    /\ Len(pages[2].items) = 2
    /\ Len(pages[3].items) = 1
    /\ pages[4].items = <<>>
    /\ pages[5].items = <<>>

====
